---------------------------- MODULE Spec2Model ----------------------------
(***************************************************************************)
(* A model of the MCP gateway of src/test-gateway/main.py: the registry    *)
(* (server_registrations, scan_results, approvals, audit_events), the      *)
(* request handlers that write it, the policy gate and the proxy.          *)
(*                                                                         *)
(* Every handler is an asyncio coroutine.  It runs without interruption    *)
(* between two awaits, and every database statement is one await on a      *)
(* pooled connection outside any transaction block, so each statement is   *)
(* committed on its own.  A handler is therefore modelled as a sequence of *)
(* atomic steps, one per statement, interleaved with the steps of the      *)
(* other handlers.                                                         *)
(*                                                                         *)
(* Strings that the code takes apart (paths, urls, canonical ids) are      *)
(* sequences of tokens in which "/" is the slash character.                *)
(***************************************************************************)
EXTENDS Integers, Sequences, FiniteSets, TLC

\* ------------------------------------------------------------- bounds
\* Requests accepted over a run (also the clock: datetime.utcnow() of the
\* n-th request is n).
MaxRequests == 3
\* Rows server_registrations may hold.
MaxServers == 2

\* The handlers that may be in flight at the same time.
Handlers == {"h1", "h2"}
HandlerRank == [h \in Handlers |-> IF h = "h1" THEN 1 ELSE 2]

\* ------------------------------------------------------------- constants
POLICY_MAX_RISK_SCORE == 75
POLICY_AUTO_APPROVE_BELOW == 25

\* uuid.uuid4() values, in the order they are handed out.
UuidPool == <<"u1", "u2", "u3", "u4", "u5", "u6">>
\* A well-formed uuid that is never handed out, and a string that is no uuid.
UnknownUuid == "u0"
NotAUuid == "not-a-uuid"

\* A key a JSON object does not hold (dict.get(key) is None).
None == <<>>

Statuses == {"PendingScan", "ScannedPass", "ScannedFail", "Approved", "Denied", "Suspended"}

\* ------------------------------------------------------------- inputs
\* Bodies of POST /registry/servers (ServerRegistrationRequest).
RegRequests ==
  { [canonicalId |-> <<"local", "/", "demo">>, name |-> "demo", ownerTeam |-> "platform",
     sourceType |-> "LocalDeclared", declaredTools |-> <<"get_weather">>,
     mcpConfig |-> [url |-> None, endpoint |-> None]],
    [canonicalId |-> <<"weather">>, name |-> "weather", ownerTeam |-> "data",
     sourceType |-> "LocalDeclared", declaredTools |-> <<>>,
     mcpConfig |-> [url |-> <<"http:", "/", "/", "w", "/">>, endpoint |-> None]],
    [canonicalId |-> <<"api">>, name |-> "api", ownerTeam |-> "data",
     sourceType |-> "RemoteDeclared", declaredTools |-> <<>>,
     mcpConfig |-> [url |-> None, endpoint |-> <<"http:", "/", "/", "a">>]] }

\* Values of scanOutput (LocalScanUploadRequest): text that is no JSON, and
\* JSON objects.  A tool is <<name>>, or <<>> when it has no "name" key.
ScanOutputs ==
  { [json |-> "invalid", nulls |-> {}, risk_score |-> 0, issues |-> <<>>,
     servers |-> <<>>],
    [json |-> "object", nulls |-> {}, risk_score |-> 25, issues |-> <<>>,
     servers |-> << <<  <<"get_weather">> >> >>],
    [json |-> "object", nulls |-> {}, risk_score |-> 26, issues |-> <<"i1">>,
     servers |-> <<>>],
    [json |-> "object", nulls |-> {}, risk_score |-> 75, issues |-> <<>>,
     servers |-> << << <<"a">> >>, << <<"b">>, <<>> >> >>],
    [json |-> "object", nulls |-> {}, risk_score |-> 76, issues |-> <<"i1", "i2">>,
     servers |-> <<>>] }

\* Scan outputs that are JSON objects in which one field holds null: nulls
\* names the field ("tools" is the tools field of a backend), the record's own
\* value for it is None.
NullFieldOutputs ==
  { [json |-> "object", nulls |-> {"risk_score"}, risk_score |-> 0,
     issues |-> <<>>, servers |-> << << <<"a">> >> >>],
    [json |-> "object", nulls |-> {"issues"}, risk_score |-> 10,
     issues |-> None, servers |-> << << <<"a">> >> >>],
    [json |-> "object", nulls |-> {"servers"}, risk_score |-> 10,
     issues |-> <<>>, servers |-> None],
    [json |-> "object", nulls |-> {"tools"}, risk_score |-> 10,
     issues |-> <<>>, servers |-> << None >>] }

AdminActions == {"approve", "deny", "suspend"}

\* The reason of an ApprovalRequest.
Reason == "manual review"

\* ------------------------------------------------------------- state
VARIABLES
  server_registrations,  \* table: sequence of rows, in insertion order
  scan_results,          \* table
  approvals,             \* table
  audit_events,          \* table
  statusWrites,          \* history: uuid -> number of writes of the status column
  backendLog,            \* history: the requests sent to backends by the proxy
  stream,                \* handler -> the event stream it is relaying
  nreq,                  \* requests accepted so far; the clock
  pc,                    \* handler -> the statement it is about to run
  local,                 \* handler -> its local variables
  response               \* the response the last step sent (NoResp: none)

vars == <<server_registrations, scan_results, approvals, audit_events, statusWrites,
          backendLog, stream, nreq, pc, local, response>>

store == <<server_registrations, scan_results, approvals, audit_events>>

\* ------------------------------------------------------------- helpers
Range(s) == {s[i] : i \in 1..Len(s)}

\* A row's index in server_registrations by primary key (0: no such row).
IndexOfId(id) ==
  IF \E i \in 1..Len(server_registrations) : server_registrations[i].id = id
  THEN CHOOSE i \in 1..Len(server_registrations) : server_registrations[i].id = id
  ELSE 0

\* uuid.UUID(text): whether the text parses.
IsUuid(text) == text # NotAUuid

NoLocal ==
  [op |-> "none", now |-> 0, server_id |-> "", req |-> <<>>, row |-> <<>>,
   risk_score |-> 0, new_status |-> "", tools |-> <<>>, issues |-> <<>>]

\* No response body, and the requests a response answers: the endpoint, its
\* argument and the time the handler took as now.
NoResp == [code |-> 0]

\* A handler that relays no event stream.  status: the status line sent to the
\* caller; conn: the connection to the backend; backend: what the backend is
\* doing; sent, read, delivered: the chunks the backend has written, the
\* generator has read, and the caller has been sent.
NoStream ==
  [status |-> 0, conn |-> "none", backend |-> "none", client |-> "none",
   sent |-> 0, read |-> 0, delivered |-> 0]
Request(op, arg, now) == [op |-> op, arg |-> arg, now |-> now]
NoRequest == Request("none", "", 0)

\* ---------------------------------------------------------------- Init
Init ==
  /\ server_registrations = <<>>
  /\ scan_results = <<>>
  /\ approvals = <<>>
  /\ audit_events = <<>>
  /\ statusWrites = [u \in Range(UuidPool) |-> 0]
  /\ backendLog = {}
  /\ stream = [h \in Handlers |-> NoStream]
  /\ nreq = 0
  /\ pc = [h \in Handlers |-> "idle"]
  /\ local = [h \in Handlers |-> NoLocal]
  /\ response = [request |-> NoRequest, body |-> NoResp]

\* A request is accepted by an idle handler.  The handlers are alike, so of two
\* idle ones the first takes the request.
Accept(h) ==
  /\ pc[h] = "idle"
  /\ \A k \in Handlers : pc[k] = "idle" => HandlerRank[h] <= HandlerRank[k]
  /\ nreq < MaxRequests
  /\ nreq' = nreq + 1

\* The handler returns (or raises) and is idle again.
Reply(h, request, body) ==
  /\ pc' = [pc EXCEPT ![h] = "idle"]
  /\ local' = [local EXCEPT ![h] = NoLocal]
  /\ response' = [request |-> request, body |-> body]

\* The request a handler is serving, from its local variables.
RequestOf(l) ==
  IF l.op = "register" THEN Request("register", l.req[1], l.now)
  ELSE IF l.op = "proxy" THEN Request("proxy", l.req[1].path, l.now)
  ELSE IF l.op = "upload_scan"
  THEN Request("upload_scan", [server_id |-> l.server_id, scanOutput |-> l.req[1].json],
               l.now)
  ELSE Request(l.op, l.server_id, l.now)

\* The same for a handler that is past its first statement.
Finish(h, body) == Reply(h, RequestOf(local[h]), body)

\* The handler goes on to its next statement; the step sends nothing.
Goto(h, label) ==
  /\ pc' = [pc EXCEPT ![h] = label]
  /\ response' = [request |-> NoRequest, body |-> NoResp]

\* ------------------------------------------------------- register_server
\* The uuids held by rows or by registrations in flight.
UsedUuids ==
  {server_registrations[i].id : i \in 1..Len(server_registrations)}
    \cup {local[h].server_id : h \in {k \in Handlers : local[k].op = "register"}}

FreshUuid == UuidPool[CHOOSE i \in 1..Len(UuidPool) :
                        /\ UuidPool[i] \notin UsedUuids
                        /\ \A j \in 1..(i - 1) : UuidPool[j] \in UsedUuids]

\* Mutant: the check compares the name column.
CanonicalExistsByName(canonicalId) ==
  \E i \in 1..Len(server_registrations) :
    <<server_registrations[i].name>> = canonicalId

\* SELECT id FROM server_registrations WHERE canonical_id = $1
CanonicalExists(canonicalId) ==
  \E i \in 1..Len(server_registrations) :
    server_registrations[i].canonicalId = canonicalId

\* Lines 132-142.  Between its entry and its first statement a handler reads
\* only the clock, so the two are one step.
RegisterStart(h) ==
  /\ Accept(h)
  /\ \E req \in RegRequests :
       /\ IF CanonicalExists(req.canonicalId)
          THEN Reply(h, Request("register", req, nreq + 1),
                     [code |-> 409, detail |-> "Server already registered"])
          ELSE /\ Cardinality(UsedUuids) < MaxServers
               /\ local' = [local EXCEPT ![h] =
                              [NoLocal EXCEPT !.op = "register", !.now = nreq + 1,
                                              !.server_id = FreshUuid, !.req = <<req>>]]
               /\ Goto(h, "reg_insert")
       /\ UNCHANGED <<store, statusWrites, backendLog, stream>>

NewRegistration(id, req, now) ==
  [id |-> id, canonicalId |-> req.canonicalId, name |-> req.name,
   ownerTeam |-> req.ownerTeam, sourceType |-> req.sourceType,
   status |-> "PendingScan", declaredTools |-> req.declaredTools,
   mcpConfig |-> req.mcpConfig, createdAt |-> now, updatedAt |-> now]

\* The INSERT of lines 145-159.  The table's definition is not part of the
\* sources: when another handler has inserted the same canonical_id since the
\* check, the statement either inserts a second row (no unique index) or raises
\* UniqueViolationError, which no handler catches (500).
RegisterInsert(h) ==
  /\ pc[h] = "reg_insert"
  /\ \/ /\ server_registrations' =
            Append(server_registrations,
                   NewRegistration(local[h].server_id, local[h].req[1], local[h].now))
        /\ statusWrites' = [statusWrites EXCEPT ![local[h].server_id] = @ + 1]
        /\ Goto(h, "reg_audit") /\ local' = local
     \/ /\ CanonicalExists(local[h].req[1].canonicalId)
        /\ Finish(h, [code |-> 500, detail |-> "UniqueViolationError"])
        /\ UNCHANGED <<server_registrations, statusWrites>>
  /\ UNCHANGED <<scan_results, approvals, audit_events, backendLog, stream, nreq>>

RegisterAuditEvent(l) ==
  [eventType |-> "ServerRegistered", serverId |-> l.server_id, actor |-> "test-user",
   details |-> [name |-> l.req[1].name, canonicalId |-> l.req[1].canonicalId],
   createdAt |-> l.now]

RegisterAudit(h) ==
  /\ pc[h] = "reg_audit"
  /\ audit_events' = Append(audit_events, RegisterAuditEvent(local[h]))
  /\ Finish(h, [code |-> 200, id |-> local[h].server_id,
                canonicalId |-> local[h].req[1].canonicalId,
                name |-> local[h].req[1].name, status |-> "PendingScan"])
  /\ UNCHANGED <<server_registrations, scan_results, approvals, statusWrites,
                 backendLog, stream, nreq>>

\* ----------------------------------------------------------- upload_scan
\* The ids a caller may name: those of the rows, a uuid of no row, and a
\* string that is no uuid.
ServerIdInputs ==
  {server_registrations[i].id : i \in 1..Len(server_registrations)}
    \cup {UnknownUuid, NotAUuid}

\* Mutant: the bands with their upper ends excluded.
PolicyStatusExclusive(risk_score, autoApproveBelow, maxRiskScore) ==
  IF risk_score < autoApproveBelow THEN "Approved"
  ELSE IF risk_score < maxRiskScore THEN "ScannedPass"
  ELSE "ScannedFail"

\* Lines 204-209, with the two thresholds as parameters.
PolicyStatus(risk_score, autoApproveBelow, maxRiskScore) ==
  IF risk_score <= autoApproveBelow THEN "Approved"
  ELSE IF risk_score <= maxRiskScore THEN "ScannedPass"
  ELSE "ScannedFail"

NewStatus(risk_score) ==
  PolicyStatus(risk_score, POLICY_AUTO_APPROVE_BELOW, POLICY_MAX_RISK_SCORE)

\* tool.get("name", "unknown")
ToolName(tool) == IF tool = <<>> THEN "unknown" ELSE tool[1]

RECURSIVE ServerTools(_)
ServerTools(toolList) ==
  IF toolList = <<>> THEN <<>>
  ELSE <<ToolName(Head(toolList))>> \o ServerTools(Tail(toolList))

\* The two loops of lines 199-201.
RECURSIVE ExtractTools(_)
ExtractTools(servers) ==
  IF servers = <<>> THEN <<>>
  ELSE ServerTools(Head(servers)) \o ExtractTools(Tail(servers))

\* SELECT * FROM server_registrations WHERE id = $1, with uuid.UUID(server_id)
\* evaluated first: a string that is no uuid raises ValueError, which no
\* handler catches (500).  The error the statement ends the request with, or
\* none (code 0).
FetchById(server_id) ==
  IF ~IsUuid(server_id) THEN [code |-> 500, detail |-> "ValueError"]
  ELSE IF IndexOfId(server_id) = 0 THEN [code |-> 404, detail |-> "Server not found"]
  ELSE NoResp

\* Mutant: text that does not parse is taken for an empty object.
JsonLoadsLenient(scanOutput) == "object"

\* json.loads(req.scanOutput), lines 189-192: what the text parses to, or
\* "invalid" when it raises JSONDecodeError.
JsonLoads(scanOutput) == scanOutput.json

\* Lines 194-209 on a parsed payload: the error they end the request with, or
\* none (code 0).  A null where the loops of lines 199-200 expect a list, or
\* where line 204 compares a number, raises TypeError, which no handler
\* catches (500).
ScanFields(out) ==
  IF "servers" \in out.nulls \/ "tools" \in out.nulls \/ "risk_score" \in out.nulls
  THEN [code |-> 500, detail |-> "TypeError"]
  ELSE [code |-> 0]

\* Lines 185-218 for the path parameter sid and the scan output out.
UploadParse(h, sid, out) ==
  /\ IF JsonLoads(out) = "invalid"
     THEN Reply(h, Request("upload_scan",
                           [server_id |-> sid, scanOutput |-> out.json], nreq + 1),
                [code |-> 400, detail |-> "Invalid JSON in scanOutput"])
     ELSE IF ScanFields(out).code # 0
     THEN Reply(h, Request("upload_scan",
                           [server_id |-> sid, scanOutput |-> out.json], nreq + 1),
                ScanFields(out))
     ELSE IF FetchById(sid).code # 0
     THEN Reply(h, Request("upload_scan",
                           [server_id |-> sid, scanOutput |-> out.json], nreq + 1),
                FetchById(sid))
     ELSE /\ local' = [local EXCEPT ![h] =
                         [NoLocal EXCEPT !.op = "upload_scan", !.now = nreq + 1,
                                         !.server_id = sid, !.req = <<out>>,
                                         !.row = <<server_registrations[IndexOfId(sid)]>>,
                                         !.risk_score = out.risk_score,
                                         !.issues = out.issues,
                                         !.tools = ExtractTools(out.servers),
                                         !.new_status = NewStatus(out.risk_score)]]
          /\ Goto(h, "up_insert")
  /\ UNCHANGED <<store, statusWrites, backendLog, stream>>

\* An upload whose scan output has every field it holds of the expected type.
UploadStart(h) ==
  /\ Accept(h)
  /\ \E sid \in ServerIdInputs, out \in ScanOutputs : UploadParse(h, sid, out)

\* An upload whose scan output holds a null field.
UploadNullField(h) ==
  /\ Accept(h)
  /\ \E sid \in ServerIdInputs, out \in NullFieldOutputs : UploadParse(h, sid, out)

ScanRow(l) ==
  [serverId |-> l.server_id, riskScore |-> l.risk_score, issues |-> l.issues,
   discoveredTools |-> l.tools, scannedAt |-> l.now, createdAt |-> l.now]

\* Mutant: one scan result per server, replaced by each upload
\* (INSERT ... ON CONFLICT (server_id) DO UPDATE).
UploadInsertScanUpsert(h) ==
  /\ pc[h] = "up_insert"
  /\ scan_results' =
       Append(SelectSeq(scan_results,
                        LAMBDA r : r.serverId # local[h].server_id),
              ScanRow(local[h]))
  /\ Goto(h, "up_update") /\ local' = local
  /\ UNCHANGED <<server_registrations, approvals, audit_events, statusWrites,
                 backendLog, stream, nreq>>

UploadInsertScan(h) ==
  /\ pc[h] = "up_insert"
  /\ scan_results' = Append(scan_results, ScanRow(local[h]))
  /\ Goto(h, "up_update") /\ local' = local
  /\ UNCHANGED <<server_registrations, approvals, audit_events, statusWrites,
                 backendLog, stream, nreq>>

\* Mutant: a transition graph in which Denied is final.
UpdateStatusUnlessDenied(id, new_status, now) ==
  [i \in 1..Len(server_registrations) |->
     IF server_registrations[i].id = id /\ server_registrations[i].status # "Denied"
     THEN [server_registrations[i] EXCEPT !.status = new_status, !.updatedAt = now]
     ELSE server_registrations[i]]

\* Mutant: the UPDATE without its WHERE clause.
UpdateStatusEveryRow(id, new_status, now) ==
  [i \in 1..Len(server_registrations) |->
     [server_registrations[i] EXCEPT !.status = new_status, !.updatedAt = now]]

\* UPDATE server_registrations SET status = $1, updated_at = $2 WHERE id = $3
UpdateStatus(id, new_status, now) ==
  [i \in 1..Len(server_registrations) |->
     IF server_registrations[i].id = id
     THEN [server_registrations[i] EXCEPT !.status = new_status, !.updatedAt = now]
     ELSE server_registrations[i]]

\* The writes of the status column the statement makes.
CountWrites(id) ==
  [statusWrites EXCEPT ![id] = IF IndexOfId(id) = 0 THEN @ ELSE @ + 1]

\* Mutant: an upload leaves the status an administrator has set to Denied or
\* Suspended (UPDATE ... WHERE id = $3 AND status NOT IN ('Denied', 'Suspended')).
UploadUpdateStatusKeepsAdminBlock(h) ==
  /\ pc[h] = "up_update"
  /\ server_registrations' =
       [i \in 1..Len(server_registrations) |->
          IF /\ server_registrations[i].id = local[h].server_id
             /\ server_registrations[i].status \notin {"Denied", "Suspended"}
          THEN [server_registrations[i] EXCEPT !.status = local[h].new_status,
                                               !.updatedAt = local[h].now]
          ELSE server_registrations[i]]
  /\ statusWrites' = CountWrites(local[h].server_id)
  /\ Goto(h, "up_audit") /\ local' = local
  /\ UNCHANGED <<scan_results, approvals, audit_events, backendLog, stream, nreq>>

UploadUpdateStatus(h) ==
  /\ pc[h] = "up_update"
  /\ server_registrations' =
       UpdateStatus(local[h].server_id, local[h].new_status, local[h].now)
  /\ statusWrites' = CountWrites(local[h].server_id)
  /\ Goto(h, "up_audit") /\ local' = local
  /\ UNCHANGED <<scan_results, approvals, audit_events, backendLog, stream, nreq>>

\* Mutant: the audit event counts the scanned backends, not their tools.
UploadAuditEventCountsBackends(l) ==
  [eventType |-> "ScanUploaded", serverId |-> l.server_id, actor |-> "test-user",
   details |-> [riskScore |-> l.risk_score, toolCount |-> Len(l.req[1].servers),
                newStatus |-> l.new_status],
   createdAt |-> l.now]

UploadAuditEvent(l) ==
  [eventType |-> "ScanUploaded", serverId |-> l.server_id, actor |-> "test-user",
   details |-> [riskScore |-> l.risk_score, toolCount |-> Len(l.tools),
                newStatus |-> l.new_status],
   createdAt |-> l.now]

\* Mutant: the upload returns without its audit event.
UploadAuditSkipped(h) ==
  /\ pc[h] = "up_audit"
  /\ Finish(h, [code |-> 200, serverId |-> local[h].server_id,
                riskScore |-> local[h].risk_score, status |-> local[h].new_status,
                toolsFound |-> Len(local[h].tools),
                issuesFound |-> Len(local[h].issues)])
  /\ UNCHANGED <<store, statusWrites, backendLog, stream, nreq>>

\* The reply of lines 256-264: len(issues) of a null raises TypeError (500),
\* after the three statements.
UploadReply(l) ==
  IF "issues" \in l.req[1].nulls
  THEN [code |-> 500, detail |-> "TypeError"]
  ELSE [code |-> 200, serverId |-> l.server_id,
        riskScore |-> l.risk_score, status |-> l.new_status,
        toolsFound |-> Len(l.tools),
        issuesFound |-> Len(l.issues)]

UploadAudit(h) ==
  /\ pc[h] = "up_audit"
  /\ audit_events' = Append(audit_events, UploadAuditEvent(local[h]))
  /\ Finish(h, UploadReply(local[h]))
  /\ UNCHANGED <<server_registrations, scan_results, approvals, statusWrites,
                 backendLog, stream, nreq>>

\* ------------------------------------------------- _update_server_status
\* The status each endpoint passes (lines 282, 288, 294).
\* Mutant: the suspend endpoint passes the status of the approve endpoint.
TargetStatusSuspendApproves(action) ==
  CASE action = "approve" -> "Approved"
    [] action = "deny" -> "Denied"
    [] action = "suspend" -> "Approved"

TargetStatus(action) ==
  CASE action = "approve" -> "Approved"
    [] action = "deny" -> "Denied"
    [] action = "suspend" -> "Suspended"

\* f"Server{action.capitalize()}d"
AdminEventType(action) ==
  CASE action = "approve" -> "ServerApproved"
    [] action = "deny" -> "ServerDenyd"
    [] action = "suspend" -> "ServerSuspendd"

\* Lines 299-309.
AdminStart(h) ==
  /\ Accept(h)
  /\ \E sid \in ServerIdInputs, action \in AdminActions :
       /\ IF FetchById(sid).code # 0
          THEN Reply(h, Request(action, sid, nreq + 1), FetchById(sid))
          ELSE /\ local' = [local EXCEPT ![h] =
                              [NoLocal EXCEPT !.op = action, !.now = nreq + 1,
                                              !.server_id = sid,
                                              !.row = <<server_registrations[IndexOfId(sid)]>>,
                                              !.new_status = TargetStatus(action)]]
               /\ Goto(h, "adm_update")
       /\ UNCHANGED <<store, statusWrites, backendLog, stream>>

AdminUpdate(h) ==
  /\ pc[h] = "adm_update"
  /\ server_registrations' =
       UpdateStatus(local[h].server_id, local[h].new_status, local[h].now)
  /\ statusWrites' = CountWrites(local[h].server_id)
  /\ Goto(h, "adm_approval") /\ local' = local
  /\ UNCHANGED <<scan_results, approvals, audit_events, backendLog, stream, nreq>>

ApprovalRow(l) ==
  [serverId |-> l.server_id, action |-> l.op, approvedBy |-> "test-admin",
   reason |-> Reason, createdAt |-> l.now]

\* Mutant: an approval the table already holds for the server and action is
\* not recorded again.
AdminApprovalOnce(h) ==
  /\ pc[h] = "adm_approval"
  /\ approvals' =
       IF \E i \in 1..Len(approvals) : /\ approvals[i].serverId = local[h].server_id
                                       /\ approvals[i].action = local[h].op
       THEN approvals
       ELSE Append(approvals, ApprovalRow(local[h]))
  /\ Goto(h, "adm_audit") /\ local' = local
  /\ UNCHANGED <<server_registrations, scan_results, audit_events, statusWrites,
                 backendLog, stream, nreq>>

AdminApproval(h) ==
  /\ pc[h] = "adm_approval"
  /\ approvals' = Append(approvals, ApprovalRow(local[h]))
  /\ Goto(h, "adm_audit") /\ local' = local
  /\ UNCHANGED <<server_registrations, scan_results, audit_events, statusWrites,
                 backendLog, stream, nreq>>

AdminAuditEvent(l) ==
  [eventType |-> AdminEventType(l.op), serverId |-> l.server_id, actor |-> "test-admin",
   details |-> [reason |-> Reason, previousStatus |-> l.row[1].status],
   createdAt |-> l.now]

AdminAudit(h) ==
  /\ pc[h] = "adm_audit"
  /\ audit_events' = Append(audit_events, AdminAuditEvent(local[h]))
  /\ Finish(h, [code |-> 200, id |-> local[h].server_id,
                status |-> local[h].new_status])
  /\ UNCHANGED <<server_registrations, scan_results, approvals, statusWrites,
                 backendLog, stream, nreq>>

\* ---------------------------------------------------------- list_servers
\* ORDER BY created_at DESC: the rows of the given indices, newest first.
RECURSIVE NewestFirst(_)
NewestFirst(idx) ==
  IF idx = {} THEN <<>>
  ELSE LET i == CHOOSE k \in idx :
                  \A m \in idx : server_registrations[m].createdAt
                                   <= server_registrations[k].createdAt
       IN <<server_registrations[i]>> \o NewestFirst(idx \ {i})

\* The values of the status filter a caller may give ("": none).
StatusFilters == {"", "Approved"}

\* GET /registry/servers?status=: one SELECT.
ListServersRows(status) ==
  NewestFirst({i \in 1..Len(server_registrations) :
                 status = "" \/ server_registrations[i].status = status})

ListServers(h) ==
  /\ Accept(h)
  /\ \E status \in StatusFilters :
       /\ Reply(h, Request("list_servers", status, nreq + 1),
                [code |-> 200, rows |-> ListServersRows(status)])
       /\ UNCHANGED <<store, statusWrites, backendLog, stream>>

\* ---------------------------------------------------------- check_policy
\* The identifiers a caller may ask about: the canonical ids and urls of the
\* registration requests, and one that nothing registers.
PolicyIdentifiers ==
  {r.canonicalId : r \in RegRequests}
    \cup ({r.mcpConfig.url : r \in RegRequests} \ {None})
    \cup ({r.mcpConfig.endpoint : r \in RegRequests} \ {None})
    \cup {<<"nobody">>}

\* WHERE canonical_id = $1 OR mcp_config->>'url' = $1
PolicyMatch(row, server_url) ==
  \/ row.canonicalId = server_url
  \/ (row.mcpConfig.url # None /\ row.mcpConfig.url = server_url)

PolicyRows(server_url) ==
  {i \in 1..Len(server_registrations) : PolicyMatch(server_registrations[i], server_url)}

\* Mutant: a server that passed its scan is allowed as well.
CheckPolicyResponsePass(rows) ==
  IF rows = <<>>
  THEN [code |-> 200, allowed |-> FALSE,
        reason |-> "Server not registered", status |-> "", action |-> "block"]
  ELSE IF rows[1].status \notin {"Approved", "ScannedPass"}
  THEN [code |-> 200, allowed |-> FALSE,
        reason |-> "Server status is not Approved", status |-> rows[1].status,
        action |-> "block"]
  ELSE [code |-> 200, allowed |-> TRUE,
        serverId |-> rows[1].id, serverName |-> rows[1].name]

\* Lines 386-404; rows is what fetchrow returned: <<>> or <<row>>.
CheckPolicyResponse(rows) ==
  IF rows = <<>>
  THEN [code |-> 200, allowed |-> FALSE,
        reason |-> "Server not registered", status |-> "", action |-> "block"]
  ELSE IF rows[1].status # "Approved"
  THEN [code |-> 200, allowed |-> FALSE,
        reason |-> "Server status is not Approved", status |-> rows[1].status,
        action |-> "block"]
  ELSE [code |-> 200, allowed |-> TRUE,
        serverId |-> rows[1].id, serverName |-> rows[1].name]

\* Mutant: the gate records every check in the audit trail.
CheckPolicyAudited(h) ==
  /\ Accept(h)
  /\ \E server_url \in PolicyIdentifiers :
       /\ \/ /\ PolicyRows(server_url) = {}
             /\ Reply(h, Request("check_policy", server_url, nreq + 1),
                      CheckPolicyResponse(<<>>))
          \/ \E i \in PolicyRows(server_url) :
               Reply(h, Request("check_policy", server_url, nreq + 1),
                     CheckPolicyResponse(<<server_registrations[i]>>))
       /\ audit_events' =
            Append(audit_events,
                   [eventType |-> "PolicyChecked", serverId |-> None,
                    actor |-> "test-user", details |-> [identifier |-> server_url],
                    createdAt |-> nreq + 1])
       /\ UNCHANGED <<server_registrations, scan_results, approvals, statusWrites,
                      backendLog, stream>>

\* fetchrow returns the first row the scan meets; with several matches that is
\* any of them.
CheckPolicy(h) ==
  /\ Accept(h)
  /\ \E server_url \in PolicyIdentifiers :
       /\ \/ /\ PolicyRows(server_url) = {}
             /\ Reply(h, Request("check_policy", server_url, nreq + 1),
                      CheckPolicyResponse(<<>>))
          \/ \E i \in PolicyRows(server_url) :
               Reply(h, Request("check_policy", server_url, nreq + 1),
                     CheckPolicyResponse(<<server_registrations[i]>>))
       /\ UNCHANGED <<store, statusWrites, backendLog, stream>>

\* ------------------------------------------------------------- mcp_proxy
\* The position of the first "/" of a string (0: none).
FirstSlash(str) ==
  IF \E i \in 1..Len(str) : str[i] = "/"
  THEN CHOOSE i \in 1..Len(str) : str[i] = "/" /\ \A j \in 1..(i - 1) : str[j] # "/"
  ELSE 0

\* parts = server_id.split("/", 1); parts[0]
ActualServerId(path) ==
  IF FirstSlash(path) = 0 THEN path ELSE SubSeq(path, 1, FirstSlash(path) - 1)

\* "/" + parts[1] if len(parts) > 1 else ""
PathSuffix(path) ==
  IF FirstSlash(path) = 0 THEN <<>> ELSE SubSeq(path, FirstSlash(path), Len(path))

\* str.rstrip("/")
RECURSIVE RStripSlash(_)
RStripSlash(str) ==
  IF str # <<>> /\ str[Len(str)] = "/" THEN RStripSlash(SubSeq(str, 1, Len(str) - 1))
  ELSE str

\* WHERE id::text = $1 OR canonical_id = $1
TargetMatch(row, server_id) == <<row.id>> = server_id \/ row.canonicalId = server_id

TargetRows(server_id) ==
  {i \in 1..Len(server_registrations) : TargetMatch(server_registrations[i], server_id)}

\* Mutant: the status of the row is not looked at.
GetServerTargetAnyStatus(rows) ==
  IF rows = <<>> THEN [code |-> 404, detail |-> "MCP server not registered"]
  ELSE NoResp

\* get_server_target, lines 427-437: the error it raises for the row fetched,
\* or no error (code 0).
GetServerTarget(rows) ==
  IF rows = <<>> THEN [code |-> 404, detail |-> "MCP server not registered"]
  ELSE IF rows[1].status # "Approved"
  THEN [code |-> 403, detail |-> "MCP server is not approved", name |-> rows[1].name,
        status |-> rows[1].status]
  ELSE NoResp

\* config.get("url") or config.get("endpoint")
TargetUrl(config) == IF config.url # None THEN config.url ELSE config.endpoint

\* The paths after /mcp/proxy/ a caller may use.
ProxyPaths ==
  {<<id>> : id \in ServerIdInputs \ {NotAUuid}}
    \cup {<<id, "/", "sse">> : id \in ServerIdInputs \ {NotAUuid, UnknownUuid}}
    \cup {r.canonicalId : r \in RegRequests}
    \cup {<<"weather", "/", "sse">>}

\* Mutant: the url is looked for before the status.
ProxyLookupRowUrlFirst(h, path, rows) ==
  IF rows = <<>>
  THEN Reply(h, Request("proxy", path, nreq + 1), GetServerTarget(rows))
  ELSE IF TargetUrl(rows[1].mcpConfig) = None
  THEN Reply(h, Request("proxy", path, nreq + 1),
             [code |-> 400, detail |-> "Server has no remote URL configured"])
  ELSE IF GetServerTarget(rows).code # 0
  THEN Reply(h, Request("proxy", path, nreq + 1), GetServerTarget(rows))
  ELSE /\ local' = [local EXCEPT ![h] =
                      [NoLocal EXCEPT !.op = "proxy", !.now = nreq + 1,
                                      !.row = rows,
                                      !.req = <<[path |-> path,
                                                 target_url |-> TargetUrl(rows[1].mcpConfig),
                                                 full_target |->
                                                   RStripSlash(TargetUrl(rows[1].mcpConfig))
                                                     \o PathSuffix(path)]>>]]
       /\ Goto(h, "px_forward")

\* Lines 449-465, for the row fetchrow returned.
ProxyLookupRow(h, path, rows) ==
  IF GetServerTarget(rows).code # 0
  THEN Reply(h, Request("proxy", path, nreq + 1), GetServerTarget(rows))
  ELSE IF TargetUrl(rows[1].mcpConfig) = None
  THEN Reply(h, Request("proxy", path, nreq + 1),
             [code |-> 400, detail |-> "Server has no remote URL configured"])
  ELSE /\ local' = [local EXCEPT ![h] =
                      [NoLocal EXCEPT !.op = "proxy", !.now = nreq + 1,
                                      !.row = rows,
                                      !.req = <<[path |-> path,
                                                 target_url |-> TargetUrl(rows[1].mcpConfig),
                                                 full_target |->
                                                   RStripSlash(TargetUrl(rows[1].mcpConfig))
                                                     \o PathSuffix(path)]>>]]
       /\ Goto(h, "px_forward")

ProxyLookup(h) ==
  /\ Accept(h)
  /\ \E path \in ProxyPaths :
       /\ \/ /\ TargetRows(ActualServerId(path)) = {}
             /\ ProxyLookupRow(h, path, <<>>)
          \/ \E i \in TargetRows(ActualServerId(path)) :
               ProxyLookupRow(h, path, <<server_registrations[i]>>)
       /\ UNCHANGED <<store, statusWrites, backendLog, stream>>

\* What the backend does with a request: it answers, the connection cannot
\* be made (httpx.ConnectError), or no answer comes within the 60 s of the
\* client (httpx.TimeoutException).
BackendOutcomes == {"response", "ConnectError", "TimeoutException"}

\* Lines 501-518: the response of a request that is not an event stream.
ForwardResponse(l, outcome) ==
  IF outcome = "ConnectError"
  THEN [code |-> 502, detail |-> "Cannot connect to MCP server",
        target |-> l.req[1].target_url]
  ELSE IF outcome = "TimeoutException"
  THEN [code |-> 504, detail |-> "MCP server timeout"]
  ELSE [code |-> 200, target |-> l.req[1].full_target]

\* str.lower() on the header names of the model.
Lower(k) ==
  CASE k \in {"Host", "HOST"} -> "host"
    [] k = "Content-Length" -> "content-length"
    [] k = "Authorization" -> "authorization"
    [] OTHER -> k

\* request.headers.items() of the requests tried: the header lines in the
\* order they arrived, a repeated name once per line.
InboundHeaders ==
  { <<[name |-> "host", value |-> "gw"]>>,
    <<[name |-> "Host", value |-> "gw"], [name |-> "Content-Length", value |-> "2"],
      [name |-> "Authorization", value |-> "Bearer t"]>>,
    <<[name |-> "HOST", value |-> "gw"], [name |-> "content-length", value |-> "2"],
      [name |-> "x-trace", value |-> "1"]>>,
    <<[name |-> "host", value |-> "gw"], [name |-> "accept", value |-> "a"],
      [name |-> "accept", value |-> "b"]>> }

\* The request that carries its Host header alone.
HostOnly == <<[name |-> "host", value |-> "gw"]>>

\* Lines 475-478: the dict comprehension.  A dict holds one value per key, the
\* one of the last item with that key.
ForwardHeaders(items) ==
  LET kept == {i \in 1..Len(items) :
                 Lower(items[i].name) \notin {"host", "content-length"}}
      last(k) == CHOOSE i \in kept :
                   /\ items[i].name = k
                   /\ \A j \in kept : items[j].name = k => j <= i
  IN [k \in {items[i].name : i \in kept} |-> items[last(k)].value]

\* Lines 471-518 for a request with the header lines items whose Accept header
\* does not name text/event-stream.
ProxySend(h, items) ==
  /\ backendLog' = backendLog \cup {[request |-> local[h].now,
                                      target |-> local[h].req[1].full_target,
                                      inbound |-> items,
                                      headers |-> ForwardHeaders(items)]}
  /\ \E outcome \in BackendOutcomes : Finish(h, ForwardResponse(local[h], outcome))
  /\ UNCHANGED <<store, statusWrites, stream, nreq>>

\* The request to the backend of a call that carries its Host header alone.
ProxyForward(h) ==
  /\ pc[h] = "px_forward"
  /\ ProxySend(h, HostOnly)

\* The request to the backend of a call with further header lines.
ProxyForwardHeaders(h) ==
  /\ pc[h] = "px_forward"
  /\ \E items \in InboundHeaders : ProxySend(h, items)

\* ----------------------------------------------------- mcp_proxy: streams
\* The chunks of a backend's event stream.
MaxChunks == 2

\* A step of a stream: it sends no response of its own.
StreamStep(h, st) ==
  /\ stream' = [stream EXCEPT ![h] = st]
  /\ response' = [request |-> NoRequest, body |-> NoResp]
  /\ UNCHANGED <<store, statusWrites, nreq, pc, local>>

\* The stream of handler h is over: the generator has returned or raised, or
\* its coroutine was cancelled.  Leaving "async with client.stream(...)" releases
\* the connection to the backend when one was open.  What the caller got is
\* the status line sent when the stream began and the chunks delivered.
StreamOver(h, outcome) ==
  /\ Finish(h, [code |-> stream[h].status, media |-> "text/event-stream",
                outcome |-> outcome,
                conn |-> IF stream[h].conn = "open" THEN "released" ELSE stream[h].conn,
                sent |-> stream[h].sent, delivered |-> stream[h].delivered])
  /\ stream' = [stream EXCEPT ![h] = NoStream]
  /\ UNCHANGED <<store, statusWrites, nreq>>

\* Lines 483-499, when the Accept header names text/event-stream: the handler
\* returns a StreamingResponse over the generator stream_sse, which has not
\* run yet.  The return leaves "async with httpx.AsyncClient(...)" (line
\* 470), which closes the client, and the try block of lines 481-518.  The
\* server then sends the status line 200 and the headers, and starts to
\* iterate the generator.
ProxyStream(h) ==
  /\ pc[h] = "px_forward"
  /\ stream' = [stream EXCEPT ![h] = [NoStream EXCEPT !.status = 200,
                                                      !.client = "connected"]]
  /\ Goto(h, "sse_open") /\ local' = local
  /\ UNCHANGED <<store, statusWrites, backendLog, nreq>>

\* client.stream(...) on the client that line 470 has closed: httpx raises
\* RuntimeError ("the client has been closed") before it contacts the backend;
\* a release without that check sends the request on a new connection.
ClosedClientSends == {"RuntimeError", "sends"}

\* Lines 486-491: the generator's first step, the request to the backend.
\* Whatever it raises is raised in the generator, after the handler returned.
SseOpen(h) ==
  /\ pc[h] = "sse_open"
  /\ \E lib \in ClosedClientSends :
       IF lib = "RuntimeError"
       THEN StreamOver(h, "RuntimeError") /\ backendLog' = backendLog
       ELSE /\ backendLog' = backendLog \cup {[request |-> local[h].now,
                                                target |-> local[h].req[1].full_target,
                                                inbound |-> HostOnly,
                                                headers |-> ForwardHeaders(HostOnly)]}
            /\ \E outcome \in BackendOutcomes :
                 IF outcome = "response"
                 THEN /\ stream' = [stream EXCEPT ![h].conn = "open",
                                                  ![h].backend = "sending"]
                      /\ Goto(h, "sse_relay") /\ local' = local
                      /\ UNCHANGED <<store, statusWrites, nreq>>
                 ELSE StreamOver(h, outcome)

\* The backend writes its next chunk.
BackendSends(h) ==
  /\ pc[h] = "sse_relay"
  /\ stream[h].backend = "sending"
  /\ stream[h].sent < MaxChunks
  /\ StreamStep(h, [stream[h] EXCEPT !.sent = @ + 1])
  /\ backendLog' = backendLog

\* The backend ends its response, or its connection breaks.
BackendEnds(h) ==
  /\ pc[h] = "sse_relay"
  /\ stream[h].backend = "sending"
  /\ \E how \in {"done", "failed"} : StreamStep(h, [stream[h] EXCEPT !.backend = how])
  /\ backendLog' = backendLog

\* The caller closes its connection.
ClientDisconnects(h) ==
  /\ pc[h] = "sse_relay"
  /\ stream[h].client = "connected"
  /\ StreamStep(h, [stream[h] EXCEPT !.client = "gone"])
  /\ backendLog' = backendLog

\* Lines 492-493, one turn of the loop: the generator reads the next chunk
\* that has arrived and yields it, and the server writes it to the caller.
SseRelay(h) ==
  /\ pc[h] = "sse_relay"
  /\ stream[h].client = "connected"
  /\ stream[h].read < stream[h].sent
  /\ StreamStep(h, [stream[h] EXCEPT !.read = @ + 1, !.delivered = @ + 1])
  /\ backendLog' = backendLog

\* The loop has read every chunk the backend wrote: aiter_bytes ends if the
\* backend has finished and raises (httpx.ReadError) if its connection broke.
SseEnd(h) ==
  /\ pc[h] = "sse_relay"
  /\ stream[h].read = stream[h].sent
  /\ stream[h].backend \in {"done", "failed"}
  /\ StreamOver(h, IF stream[h].backend = "done" THEN "complete" ELSE "ReadError")
  /\ backendLog' = backendLog

\* Mutant: the disconnect is not noticed; the loop reads on and drops the chunks.
SseCancelReadsOn(h) ==
  /\ pc[h] = "sse_relay"
  /\ stream[h].client = "gone"
  /\ stream[h].read < stream[h].sent
  /\ StreamStep(h, [stream[h] EXCEPT !.read = @ + 1])
  /\ backendLog' = backendLog

\* The server has received the caller's disconnect: it cancels the coroutine that
\* iterates the generator, CancelledError is raised at the await the generator
\* is suspended in, and "async with client.stream(...)" is left.
SseCancel(h) ==
  /\ pc[h] = "sse_relay"
  /\ stream[h].client = "gone"
  /\ StreamOver(h, "cancelled")
  /\ backendLog' = backendLog

\* ------------------------------------------- list_approved_mcp_servers
\* The names of the registration requests in the order of ORDER BY name.
NameOrder == <<"api", "demo", "weather">>

NameRank(name) == CHOOSE k \in 1..Len(NameOrder) : NameOrder[k] = name

\* ORDER BY name: the rows of the given indices by name.
RECURSIVE ByName(_)
ByName(idx) ==
  IF idx = {} THEN <<>>
  ELSE LET i == CHOOSE k \in idx :
                  \A m \in idx : NameRank(server_registrations[k].name)
                                   <= NameRank(server_registrations[m].name)
       IN <<server_registrations[i]>> \o ByName(idx \ {i})

\* Mutant: only the url key makes a server remote.
HasRemoteUrlKeyOnly(config) == config.url # None

\* bool(config.get("url") or config.get("endpoint"))
HasRemoteUrl(config) == config.url # None \/ config.endpoint # None

\* Lines 542-550: the entry of a row.
McpServerEntry(row) ==
  [id |-> row.id, canonicalId |-> row.canonicalId, name |-> row.name,
   tools |-> row.declaredTools,
   proxyUrl |-> IF HasRemoteUrl(row.mcpConfig)
                THEN <<"/", "mcp", "/", "proxy", "/", row.id>> ELSE None,
   isLocal |-> ~HasRemoteUrl(row.mcpConfig),
   note |-> IF HasRemoteUrl(row.mcpConfig) THEN None ELSE <<"Local server - run locally">>]

\* GET /mcp/servers: one SELECT (WHERE status = 'Approved' ORDER BY name).
ListApprovedRows ==
  ByName({i \in 1..Len(server_registrations) :
            server_registrations[i].status = "Approved"})

ListApprovedMcpServers(h) ==
  /\ Accept(h)
  /\ Reply(h, Request("mcp_servers", "", nreq + 1),
           [code |-> 200,
            servers |-> [k \in 1..Len(ListApprovedRows) |->
                           McpServerEntry(ListApprovedRows[k])]])
  /\ UNCHANGED <<store, statusWrites, backendLog, stream>>

\* ------------------------------------------------------ get_audit_events
\* The filters and limits a caller may give (None: the parameter is absent).
EventTypeInputs == {None, <<"ServerRegistered">>}

AuditServerInputs ==
  {None, <<NotAUuid>>}
    \cup {<<server_registrations[i].id>> : i \in 1..Len(server_registrations)}

LimitInputs == {None, <<1>>, <<1000>>, <<1001>>}

\* limit: int = Query(default=100, le=1000).
DefaultLimit == 100
LimitCeiling == 1000

QueryLimit(limit) == IF limit = None THEN DefaultLimit ELSE limit[1]

\* ORDER BY created_at DESC: the events of the given indices, newest first.
RECURSIVE NewestEvents(_)
NewestEvents(idx) ==
  IF idx = {} THEN <<>>
  ELSE LET i == CHOOSE k \in idx :
                  \A m \in idx : audit_events[m].createdAt <= audit_events[k].createdAt
       IN <<audit_events[i]>> \o NewestEvents(idx \ {i})

\* Mutant: the query has no LIMIT.
FirstRowsAll(rows, n) == rows

\* LIMIT n
FirstRows(rows, n) == IF Len(rows) <= n THEN rows ELSE SubSeq(rows, 1, n)

\* The SELECT of lines 351-366.
AuditRows(event_type, server_id, limit) ==
  FirstRows(NewestEvents({i \in 1..Len(audit_events) :
                            /\ event_type = None \/ audit_events[i].eventType = event_type[1]
                            /\ server_id = None \/ audit_events[i].serverId = server_id[1]}),
            limit)

\* GET /audit/events.  A limit above the ceiling is refused by the validation
\* of the parameter (422) before the handler runs; a server_id that is no
\* uuid raises ValueError at line 359 (500).
GetAuditEvents(h) ==
  /\ Accept(h)
  /\ \E event_type \in EventTypeInputs, server_id \in AuditServerInputs,
        limit \in LimitInputs :
       /\ Reply(h, Request("audit_events",
                           [event_type |-> event_type, server_id |-> server_id,
                            limit |-> limit], nreq + 1),
                IF QueryLimit(limit) > LimitCeiling
                THEN [code |-> 422, detail |-> "less_than_equal"]
                ELSE IF server_id # None /\ ~IsUuid(server_id[1])
                THEN [code |-> 500, detail |-> "ValueError"]
                ELSE [code |-> 200,
                      rows |-> AuditRows(event_type, server_id, QueryLimit(limit))])
       /\ UNCHANGED <<store, statusWrites, backendLog, stream>>

\* ------------------------------------------------------------- failures
\* The statements that write.
WriteStatements ==
  {"reg_insert", "reg_audit", "up_insert", "up_update", "up_audit",
   "adm_update", "adm_approval", "adm_audit"}

\* A statement fails (the connection drops, the server refuses it): asyncpg
\* raises, no handler catches it, and the request ends with 500.  The
\* statements that ran before it were committed one by one.
DbFail(h) ==
  /\ pc[h] \in WriteStatements
  /\ Finish(h, [code |-> 500, detail |-> "database error"])
  /\ UNCHANGED <<store, statusWrites, backendLog, stream, nreq>>

Next ==
  \E h \in Handlers :
    \/ RegisterStart(h)
    \/ RegisterInsert(h)
    \/ RegisterAudit(h)
    \/ UploadStart(h)
    \/ UploadInsertScan(h)
    \/ UploadUpdateStatus(h)
    \/ UploadAudit(h)
    \/ AdminStart(h)
    \/ AdminUpdate(h)
    \/ AdminApproval(h)
    \/ AdminAudit(h)
    \/ ListServers(h)
    \/ CheckPolicy(h)
    \/ ProxyLookup(h)
    \/ ProxyForward(h)

\* The gateway with a database whose statements always succeed.
Spec == Init /\ [][Next]_vars

NextFault == Next \/ \E h \in Handlers : DbFail(h)

\* The gateway with a database whose statements may fail.
SpecFault == Init /\ [][NextFault]_vars

\* The registry's writes with the two queries GET /mcp/servers and
\* GET /audit/events.
NextQueries ==
  \E h \in Handlers :
    \/ RegisterStart(h)
    \/ RegisterInsert(h)
    \/ RegisterAudit(h)
    \/ UploadStart(h)
    \/ UploadInsertScan(h)
    \/ UploadUpdateStatus(h)
    \/ UploadAudit(h)
    \/ AdminStart(h)
    \/ AdminUpdate(h)
    \/ AdminApproval(h)
    \/ AdminAudit(h)
    \/ ListApprovedMcpServers(h)
    \/ GetAuditEvents(h)

SpecQueries == Init /\ [][NextQueries]_vars

\* The registry's writes alone: registrations, scan uploads and the
\* administrative actions, by concurrent handlers.
NextWrites ==
  \E h \in Handlers :
    \/ RegisterStart(h)
    \/ RegisterInsert(h)
    \/ RegisterAudit(h)
    \/ UploadStart(h)
    \/ UploadInsertScan(h)
    \/ UploadUpdateStatus(h)
    \/ UploadAudit(h)
    \/ AdminStart(h)
    \/ AdminUpdate(h)
    \/ AdminApproval(h)
    \/ AdminAudit(h)

SpecWrites == Init /\ [][NextWrites]_vars

\* Registrations and scan uploads, with scan outputs that hold null fields.
NextUpload ==
  \E h \in Handlers :
    \/ RegisterStart(h)
    \/ RegisterInsert(h)
    \/ RegisterAudit(h)
    \/ UploadStart(h)
    \/ UploadNullField(h)
    \/ UploadInsertScan(h)
    \/ UploadUpdateStatus(h)
    \/ UploadAudit(h)

SpecUpload == Init /\ [][NextUpload]_vars

\* The registrations, the administrative actions and the proxy's calls that
\* are no event streams, with their header lines.
NextForward ==
  \E h \in Handlers :
    \/ RegisterStart(h)
    \/ RegisterInsert(h)
    \/ RegisterAudit(h)
    \/ AdminStart(h)
    \/ AdminUpdate(h)
    \/ AdminApproval(h)
    \/ AdminAudit(h)
    \/ ProxyLookup(h)
    \/ ProxyForwardHeaders(h)

SpecForward == Init /\ [][NextForward]_vars

\* No handler but h is serving a request.
Alone(h) == \A k \in Handlers \ {h} : pc[k] = "idle"

\* The gateway serving its requests one at a time: a request is accepted when
\* the one before it has been answered.
NextSeq ==
  \E h \in Handlers :
    \/ Alone(h) /\ RegisterStart(h)
    \/ Alone(h) /\ RegisterInsert(h)
    \/ Alone(h) /\ RegisterAudit(h)
    \/ Alone(h) /\ UploadStart(h)
    \/ Alone(h) /\ UploadInsertScan(h)
    \/ Alone(h) /\ UploadUpdateStatus(h)
    \/ Alone(h) /\ UploadAudit(h)
    \/ Alone(h) /\ AdminStart(h)
    \/ Alone(h) /\ AdminUpdate(h)
    \/ Alone(h) /\ AdminApproval(h)
    \/ Alone(h) /\ AdminAudit(h)
    \/ Alone(h) /\ CheckPolicy(h)
    \/ Alone(h) /\ ProxyLookup(h)
    \/ Alone(h) /\ ProxyForward(h)

SpecSeq == Init /\ [][NextSeq]_vars

\* The steps the gateway takes for an event stream.
StreamSteps(h) == SseOpen(h) \/ SseRelay(h) \/ SseEnd(h) \/ SseCancel(h)

\* The registrations, the administrative actions and the proxy, with event
\* streams, their backends and their callers.
NextProxy ==
  \E h \in Handlers :
    \/ RegisterStart(h)
    \/ RegisterInsert(h)
    \/ RegisterAudit(h)
    \/ AdminStart(h)
    \/ AdminUpdate(h)
    \/ AdminApproval(h)
    \/ AdminAudit(h)
    \/ ProxyLookup(h)
    \/ ProxyForward(h)
    \/ ProxyStream(h)
    \/ SseOpen(h)
    \/ BackendSends(h)
    \/ BackendEnds(h)
    \/ ClientDisconnects(h)
    \/ SseRelay(h)
    \/ SseEnd(h)
    \/ SseCancel(h)

SpecProxy == Init /\ [][NextProxy]_vars

\* The state that the registration of a server with a url (request 1) and its
\* approval (request 2) by one handler leave.
InitApproved ==
  LET req == CHOOSE r \in RegRequests : r.mcpConfig.url # None
      id == UuidPool[1]
      reg == [NoLocal EXCEPT !.op = "register", !.now = 1, !.server_id = id,
                             !.req = <<req>>]
      row == NewRegistration(id, req, 1)
      adm == [NoLocal EXCEPT !.op = "approve", !.now = 2, !.server_id = id,
                             !.row = <<row>>, !.new_status = TargetStatus("approve")]
  IN /\ server_registrations = <<[row EXCEPT !.status = adm.new_status, !.updatedAt = 2]>>
     /\ scan_results = <<>>
     /\ approvals = <<ApprovalRow(adm)>>
     /\ audit_events = <<RegisterAuditEvent(reg), AdminAuditEvent(adm)>>
     /\ statusWrites = [u \in Range(UuidPool) |-> IF u = id THEN 2 ELSE 0]
     /\ backendLog = {}
     /\ stream = [h \in Handlers |-> NoStream]
     /\ nreq = 2
     /\ pc = [h \in Handlers |-> "idle"]
     /\ local = [h \in Handlers |-> NoLocal]
     /\ response = [request |-> Request("approve", id, 2),
                    body |-> [code |-> 200, id |-> id, status |-> adm.new_status]]

\* The proxy's calls for event streams, their backends and their callers.
NextStream ==
  \E h \in Handlers :
    \/ ProxyLookup(h)
    \/ ProxyStream(h)
    \/ SseOpen(h)
    \/ BackendSends(h)
    \/ BackendEnds(h)
    \/ ClientDisconnects(h)
    \/ SseRelay(h)
    \/ SseEnd(h)
    \/ SseCancel(h)

\* The event streams of an approved server.  The event loop runs every coroutine
\* that is ready: a stream's generator and the one that cancels it are not
\* left waiting forever.
SpecStream ==
  InitApproved /\ [][NextStream]_vars /\ \A h \in Handlers : WF_vars(StreamSteps(h))

\* =========================================================================
\* The claims.
\* =========================================================================
\* The row of a uuid, which has one.
RowOf(id) == server_registrations[IndexOfId(id)]

\* Handler h takes a step from statement a to statement b.
Steps(h, a, b) == pc[h] = a /\ pc'[h] = b

\* The last step answered a request to the endpoint op.
Answered(op) == response.request.op = op

\* The step answers a request to the endpoint op.
Answers(op) == response'.request.op = op /\ nreq' = nreq + 1

\* ---------------------------------------------------------------------- C1
\* The largest threshold of the policies the evaluator is tried on.
MaxThreshold == 3

\* What C1 says the status is for score r under thresholds a < m.
ClaimedBand(status, r, a, m) ==
  /\ r <= a => status = "Approved"
  /\ (a < r /\ r <= m) => status = "ScannedPass"
  /\ r > m => status = "ScannedFail"

\* C1: the UPDATE of a scan upload sets the server's status to Approved when
\* the uploaded risk score is <= autoApproveBelow, to ScannedPass when it is
\* above that and <= maxRiskScore, and to ScannedFail above maxRiskScore; the
\* 200 response reports the same status; and the evaluator gives these bands
\* under every pair of thresholds autoApproveBelow < maxRiskScore.
C1_UploadStatusByBand ==
  /\ [][ \A h \in Handlers :
           /\ Steps(h, "up_update", "up_audit") =>
                ClaimedBand(server_registrations'[IndexOfId(local[h].server_id)].status,
                            local[h].risk_score,
                            POLICY_AUTO_APPROVE_BELOW, POLICY_MAX_RISK_SCORE)
           /\ (Steps(h, "up_audit", "idle") /\ response'.body.code = 200) =>
                ClaimedBand(response'.body.status, response'.body.riskScore,
                            POLICY_AUTO_APPROVE_BELOW, POLICY_MAX_RISK_SCORE) ]_vars
  /\ \A a \in 0..MaxThreshold, m \in 0..MaxThreshold, r \in 0..(MaxThreshold + 1) :
       a < m => ClaimedBand(PolicyStatus(r, a, m), r, a, m)

\* An upload of a score equal to maxRiskScore has set the status ScannedPass.
C1_Witness ==
  \E h \in Handlers :
    /\ pc[h] = "up_audit"
    /\ local[h].risk_score = POLICY_MAX_RISK_SCORE
    /\ RowOf(local[h].server_id).status = "ScannedPass"

\* ---------------------------------------------------------------------- C2
\* The rows C2 counts as matching an identifier.
GateMatches(identifier) ==
  {i \in 1..Len(server_registrations) :
     \/ server_registrations[i].canonicalId = identifier
     \/ server_registrations[i].mcpConfig.url = identifier}

\* C2: a policy check answers allowed only with the id and name of a matching
\* row whose status is Approved; it answers not allowed, "not registered", when
\* no row matches; and when rows match and none is Approved it answers not
\* allowed with the status of a matching row, whichever of the five it is.
C2_GateAllowsOnlyApproved ==
  [][ Answers("check_policy") =>
        LET M == GateMatches(response'.request.arg)
            b == response'.body
        IN /\ b.allowed =>
                \E i \in M : /\ server_registrations[i].status = "Approved"
                             /\ b.serverId = server_registrations[i].id
                             /\ b.serverName = server_registrations[i].name
           /\ M = {} => (~b.allowed /\ b.reason = "Server not registered")
           /\ (M # {} /\ ~b.allowed) =>
                \E i \in M : /\ server_registrations[i].status # "Approved"
                             /\ b.status = server_registrations[i].status
                             /\ b.status \in Statuses \ {"Approved"}
           /\ (M # {} /\ \A i \in M : server_registrations[i].status # "Approved")
                => ~b.allowed ]_vars

\* The gate has allowed an identifier.
C2_Witness == Answered("check_policy") /\ response.body.allowed

\* ---------------------------------------------------------------------- C3
\* The rows C3 counts as named by a proxy path: by id or by canonical id.
ProxyMatches(path) ==
  {i \in 1..Len(server_registrations) :
     \/ <<server_registrations[i].id>> = ActualServerId(path)
     \/ server_registrations[i].canonicalId = ActualServerId(path)}

\* C3: a request goes to a backend only from a call whose own lookup returned
\* a row with status Approved; a call that names no row answers 404, a call
\* whose rows are all not Approved answers 403 with the status of one of them,
\* and a call that answers 404 or 403 sends nothing to a backend.
C3_ProxyOnlyAfterApprovedLookup ==
  [][ /\ \A h \in Handlers :
           /\ Steps(h, "idle", "px_forward") =>
                \E i \in ProxyMatches(local'[h].req[1].path) :
                  /\ local'[h].row = <<server_registrations[i]>>
                  /\ server_registrations[i].status = "Approved"
           /\ (pc[h] = "px_forward" /\ pc'[h] # "px_forward") =>
                /\ local[h].row[1].status = "Approved"
                /\ backendLog' \ backendLog \subseteq
                     {e \in backendLog' : e.request = local[h].now}
      /\ backendLog' # backendLog => \E h \in Handlers : pc[h] = "px_forward"
      /\ Answers("proxy") =>
           LET M == ProxyMatches(response'.request.arg)
               b == response'.body
           IN /\ M = {} => b.code = 404
              /\ (M # {} /\ \A i \in M : server_registrations[i].status # "Approved") =>
                   /\ b.code = 403
                   /\ \E i \in M : b.status = server_registrations[i].status
              /\ b.code \in {403, 404} => backendLog' = backendLog ]_vars

\* The proxy has sent a request to a backend and relayed its answer.
C3_Witness == Answered("proxy") /\ response.body.code = 200 /\ backendLog # {}

\* ---------------------------------------------------------------------- C4
\* A row whose mcp_config holds neither url nor endpoint.
NoRemoteUrl(row) == row.mcpConfig.url = None /\ row.mcpConfig.endpoint = None

\* C4 as claimed: a proxy call that names rows without url and endpoint answers
\* 400 whatever their status.
C4_Claimed ==
  (Answered("proxy") /\ ProxyMatches(response.request.arg) # {}
     /\ \A i \in ProxyMatches(response.request.arg) : NoRemoteUrl(server_registrations[i]))
    => response.body.code = 400

\* C4 as amended: a proxy call whose identifier names rows without url and
\* endpoint answers 400 when they are Approved, and 403, not 400, when they
\* have any other status.
C4_NoUrlBadRequestWhenApproved ==
  (Answered("proxy") /\ ProxyMatches(response.request.arg) # {}
     /\ \A i \in ProxyMatches(response.request.arg) : NoRemoteUrl(server_registrations[i]))
    => /\ (\A i \in ProxyMatches(response.request.arg) :
              server_registrations[i].status = "Approved") => response.body.code = 400
       /\ (\A i \in ProxyMatches(response.request.arg) :
              server_registrations[i].status # "Approved") => response.body.code = 403

\* The proxy has answered 400 for an Approved server without url and endpoint.
C4_Witness ==
  /\ Answered("proxy") /\ response.body.code = 400
  /\ \E i \in ProxyMatches(response.request.arg) :
       NoRemoteUrl(server_registrations[i]) /\ server_registrations[i].status = "Approved"

\* ---------------------------------------------------------------------- C5
\* C5: a register call whose canonical id is in the table when the handler
\* checks never goes on to its INSERT: it answers 409 in that step, and the
\* step changes no table and writes no status.
C5_DuplicateRegisterChangesNothing ==
  [][ /\ (Answers("register")
            /\ \E i \in 1..Len(server_registrations) :
                 server_registrations[i].canonicalId = response'.request.arg.canonicalId)
          => /\ response'.body.code = 409
             /\ UNCHANGED <<store, statusWrites>>
      /\ \A h \in Handlers :
           Steps(h, "idle", "reg_insert")
             => \A i \in 1..Len(server_registrations) :
                  server_registrations[i].canonicalId # local'[h].req[1].canonicalId ]_vars

\* A register call has been refused with 409.
C5_Witness == Answered("register") /\ response.body.code = 409

\* ---------------------------------------------------------------------- C6
\* The status C6 says an administrative action sets.
ClaimedTarget(action) ==
  IF action = "approve" THEN "Approved"
  ELSE IF action = "deny" THEN "Denied" ELSE "Suspended"

\* C6: an approve, deny or suspend call is refused at its entry only when no
\* row has the id it names, never for the status of the row; its UPDATE sets
\* the row's status to Approved, Denied or Suspended respectively, whatever the
\* status was; and the call answers 200 with that status.
C6_AdminSetsStatusFromAnyStatus ==
  [][ /\ \A a \in AdminActions :
           Answers(a) => /\ response'.body.code \in {404, 500}
                         /\ IndexOfId(response'.request.arg) = 0
      /\ \A h \in Handlers :
           /\ (pc[h] = "idle" /\ pc'[h] = "adm_update") =>
                local'[h].row = <<RowOf(local'[h].server_id)>>
           /\ Steps(h, "adm_update", "adm_approval") =>
                server_registrations'[IndexOfId(local[h].server_id)].status
                  = ClaimedTarget(local[h].op)
           /\ (pc[h] = "adm_audit" /\ pc'[h] # "adm_audit") =>
                /\ response'.body.code = 200
                /\ response'.body.status = ClaimedTarget(local[h].op) ]_vars

\* An approve call has found its server ScannedFail and made it Approved.
C6_Witness ==
  \E h \in Handlers :
    /\ pc[h] = "adm_approval"
    /\ local[h].op = "approve"
    /\ local[h].row[1].status = "ScannedFail"
    /\ RowOf(local[h].server_id).status = "Approved"

\* ---------------------------------------------------------------------- C7
\* The rows of a table that satisfy a test.
Count(table, Test(_)) == Cardinality({i \in 1..Len(table) : Test(table[i])})

\* The event type C7 expects of an action's audit event.
ClaimedEventType(action) ==
  IF action = "approve" THEN "ServerApproved"
  ELSE IF action = "deny" THEN "ServerDenyd" ELSE "ServerSuspendd"

ApprovalsOf(id, action) ==
  LET T(r) == r.serverId = id /\ r.action = action IN Count(approvals, T)

AdminEventsOf(id, action) ==
  LET T(e) == e.serverId = id /\ e.eventType = ClaimedEventType(action)
  IN Count(audit_events, T)

\* In the tables rows and events, server id has as many Approval rows of an
\* action as audit events of it and calls that have yet to write theirs.
RowsAgree(rows, events, pcs, locals, id, action) ==
  LET R(r) == r.serverId = id /\ r.action = action
      E(e) == e.serverId = id /\ e.eventType = ClaimedEventType(action)
  IN Count(rows, R)
       = Count(events, E)
           + Cardinality({k \in Handlers : /\ pcs[k] = "adm_audit"
                                           /\ locals[k].server_id = id
                                           /\ locals[k].op = action})

\* C7: every administrative call, also one that repeats the action before it,
\* leaves the status at the action's target, appends one Approval row of its
\* own and then one audit event of its own, and nothing else adds or removes
\* either; so a server has as many Approval rows of an action as audit events
\* of it, one of each per call that has returned.
C7_RepeatedActionAddsRows ==
  [][ /\ \A h \in Handlers :
           /\ Steps(h, "adm_update", "adm_approval") =>
                server_registrations'[IndexOfId(local[h].server_id)].status
                  = ClaimedTarget(local[h].op)
           /\ Steps(h, "adm_approval", "adm_audit") =>
                /\ Len(approvals') = Len(approvals) + 1
                /\ SubSeq(approvals', 1, Len(approvals)) = approvals
                /\ approvals'[Len(approvals')].serverId = local[h].server_id
                /\ approvals'[Len(approvals')].action = local[h].op
                /\ approvals'[Len(approvals')].createdAt = local[h].now
           /\ (pc[h] = "adm_audit" /\ pc'[h] # "adm_audit") =>
                /\ Len(audit_events') = Len(audit_events) + 1
                /\ SubSeq(audit_events', 1, Len(audit_events)) = audit_events
                /\ audit_events'[Len(audit_events')].serverId = local[h].server_id
                /\ audit_events'[Len(audit_events')].eventType
                     = ClaimedEventType(local[h].op)
                /\ audit_events'[Len(audit_events')].createdAt = local[h].now
      /\ (\A h \in Handlers : pc[h] # "adm_approval") => approvals' = approvals
      /\ (\A h \in Handlers : pc[h] # "adm_audit")
           => \/ audit_events' = audit_events
              \/ /\ Len(audit_events') = Len(audit_events) + 1
                 /\ SubSeq(audit_events', 1, Len(audit_events)) = audit_events
                 /\ audit_events'[Len(audit_events')].eventType
                      \in {"ServerRegistered", "ScanUploaded"}
      /\ \A h \in Handlers :
           (pc[h] \in {"adm_approval", "adm_audit"} /\ pc'[h] # pc[h])
             => RowsAgree(approvals', audit_events', pc', local',
                          local[h].server_id, local[h].op) ]_vars

\* Two approve calls on one server have returned: it is Approved and has two
\* approve rows and two ServerApproved events.
C7_Witness ==
  /\ \A h \in Handlers : pc[h] = "idle"
  /\ \E i \in 1..Len(server_registrations) :
       /\ server_registrations[i].status = "Approved"
       /\ ApprovalsOf(server_registrations[i].id, "approve") = 2
       /\ AdminEventsOf(server_registrations[i].id, "approve") = 2

\* ---------------------------------------------------------------------- C8
AuditEventsOf(id) == LET T(e) == e.serverId = id IN Count(audit_events, T)

\* C8: when every request has returned, each server has as many audit events
\* as writes of its status (the INSERT of its registration and every UPDATE).
C8_OneAuditEventPerStatusWrite ==
  (\A h \in Handlers : pc[h] = "idle")
    => \A u \in Range(UuidPool) : AuditEventsOf(u) = statusWrites[u]

\* A server has been registered, scanned and acted on: three status writes and
\* three audit events.
C8_Witness ==
  /\ \A h \in Handlers : pc[h] = "idle"
  /\ \E u \in Range(UuidPool) :
       /\ statusWrites[u] = 3
       /\ AuditEventsOf(u) = 3
       /\ \E i \in 1..Len(scan_results) : scan_results[i].serverId = u
       /\ \E i \in 1..Len(approvals) : approvals[i].serverId = u

\* ---------------------------------------------------------------------- C9
\* The rows a request wrote carry the time it took as now.
WrittenAt(t) ==
  \/ \E i \in 1..Len(server_registrations) : server_registrations[i].updatedAt = t
  \/ \E i \in 1..Len(scan_results) : scan_results[i].createdAt = t
  \/ \E i \in 1..Len(approvals) : approvals[i].createdAt = t
  \/ \E i \in 1..Len(audit_events) : audit_events[i].createdAt = t

\* C9: a request that ends because one of its statements failed leaves none of
\* its writes in the tables: no status it wrote, no ScanResult, no Approval
\* and no audit event.
C9_AllOrNothing ==
  response.body.code = 500 /\ response.body.detail \in {"database error", "UniqueViolationError"}
    => ~WrittenAt(response.request.now)

\* --------------------------------------------------------------------- C10
\* C10: every row a reader gets from list_servers shows a status whose audit
\* event is in audit_events at that moment: the event of the same server
\* written by the request that wrote the status.
C10_StatusVisibleWithItsAudit ==
  Answered("list_servers") =>
    \A k \in 1..Len(response.body.rows) :
      \E i \in 1..Len(audit_events) :
        /\ audit_events[i].serverId = response.body.rows[k].id
        /\ audit_events[i].createdAt = response.body.rows[k].updatedAt

\* --------------------------------------------------------------------- C11
\* C11: no two registrations have the same canonical id, and a register call
\* that creates no registration answers 409, also when the other call with
\* the same canonical id is still running.
C11_CanonicalIdUnique ==
  /\ \A i, j \in 1..Len(server_registrations) :
       i # j => server_registrations[i].canonicalId # server_registrations[j].canonicalId
  /\ (Answered("register") /\ response.body.code # 200) => response.body.code = 409

\* --------------------------------------------------------------------- C12
\* C12: an upload whose scanOutput is no JSON answers 400 in the step that
\* accepts it, that step changes no table and writes no status, and the
\* handler never goes on to its INSERT with such a payload.
C12_InvalidPayloadRejected ==
  [][ /\ (Answers("upload_scan") /\ response'.request.arg.scanOutput = "invalid")
          => /\ response'.body.code = 400
             /\ UNCHANGED <<store, statusWrites>>
      /\ \A h \in Handlers :
           Steps(h, "idle", "up_insert") => local'[h].req[1].json # "invalid" ]_vars

\* An upload of text that is no JSON for a registered server was refused.
C12_Witness ==
  /\ Answered("upload_scan")
  /\ response.request.arg.scanOutput = "invalid"
  /\ IndexOfId(response.request.arg.server_id) # 0
  /\ response.body.code = 400

\* --------------------------------------------------------------------- C13
\* C13: an approve, deny or suspend call, or an upload of a well-formed
\* payload, that names an id of no registration answers 404, and the step
\* changes no table and writes no status.
C13_UnknownServerNotFound ==
  [][ /\ \A a \in AdminActions :
           (Answers(a) /\ IndexOfId(response'.request.arg) = 0)
             => /\ response'.body.code = 404
                /\ UNCHANGED <<store, statusWrites>>
      /\ (Answers("upload_scan")
            /\ response'.request.arg.scanOutput = "object"
            /\ IndexOfId(response'.request.arg.server_id) = 0)
           => /\ response'.body.code = 404
              /\ UNCHANGED <<store, statusWrites>> ]_vars

\* --------------------------------------------------------------------- C14
\* The response that ends an event stream.
StreamAnswered == Answered("proxy") /\ "outcome" \in DOMAIN response.body

\* C14: a call for an event stream to an Approved server with a backend URL
\* contacts the backend; while it relays, every chunk it has read has been
\* written to the caller, in the backend's order; and a chunk that has
\* arrived can be relayed whether or not the backend has finished.
C14_StreamRelaysChunksAsTheyArrive ==
  /\ StreamAnswered => \E e \in backendLog : e.request = response.request.now
  /\ \A h \in Handlers :
       pc[h] = "sse_relay" =>
         /\ stream[h].delivered = stream[h].read
         /\ stream[h].read <= stream[h].sent
         /\ (stream[h].read < stream[h].sent /\ stream[h].client = "connected")
              => ENABLED SseRelay(h)

ProxiedCall ==
  [req |-> <<[path |-> <<"weather">>, target_url |-> <<"http:", "/", "/", "w", "/">>,
              full_target |-> <<"http:", "/", "/", "w">>]>>]

\* C16: a proxied call whose backend cannot be connected to answers 502 and
\* one whose backend does not answer in time answers 504, for a request that
\* is no event stream and for one that is.
C16_BackendFailuresReported ==
  /\ ForwardResponse(ProxiedCall, "ConnectError").code = 502
  /\ ForwardResponse(ProxiedCall, "TimeoutException").code = 504
  /\ StreamAnswered =>
       /\ response.body.outcome = "ConnectError" => response.body.code = 502
       /\ response.body.outcome = "TimeoutException" => response.body.code = 504

\* --------------------------------------------------------------------- C17
\* C17: the 502 and the 504 response of the proxy carry the URL of the
\* backend the call was for.
C17_BackendErrorsCarryTargetUrl ==
  (Answered("proxy") /\ response.body.code \in {502, 504})
    => /\ "target" \in DOMAIN response.body
       /\ \E i \in ProxyMatches(response.request.arg) :
            response.body.target = TargetUrl(server_registrations[i].mcpConfig)

\* --------------------------------------------------------------------- C18
\* The path suffixes C18 gives a proxy path for row i: what follows the row's
\* id or canonical id, empty or beginning with a slash.
ClaimedSuffixes(path, i) ==
  {suffix \in {SubSeq(path, k, Len(path)) : k \in 1..(Len(path) + 1)} :
     /\ suffix = <<>> \/ suffix[1] = "/"
     /\ \/ path = <<server_registrations[i].id>> \o suffix
        \/ path = server_registrations[i].canonicalId \o suffix}

\* C18: a proxy call whose path is a registration's id or canonical id,
\* alone or followed by a suffix, finds that registration (it does not answer
\* 404), and when it forwards, the target is the registration's URL without
\* trailing slashes followed by the suffix.
C18_ResolvesByIdOrCanonicalId ==
  Answered("proxy") =>
    \A i \in 1..Len(server_registrations) :
      \A suffix \in ClaimedSuffixes(response.request.arg, i) :
        /\ response.body.code # 404
        /\ (response.body.code = 200 /\ ~StreamAnswered)
             => response.body.target
                  = RStripSlash(TargetUrl(server_registrations[i].mcpConfig)) \o suffix

\* --------------------------------------------------------------------- C19
\* C19: the answer of GET /mcp/servers has one entry for each registration
\* that is Approved at that moment and no other; an entry has proxyUrl null
\* and isLocal true when the registration's mcpConfig has neither url nor
\* endpoint, and proxyUrl /mcp/proxy/<id> and isLocal false otherwise.
C19_ApprovedServersListed ==
  Answered("mcp_servers") =>
    LET servers == response.body.servers
        approved == {i \in 1..Len(server_registrations) :
                       server_registrations[i].status = "Approved"}
    IN /\ Len(servers) = Cardinality(approved)
       /\ \A i \in approved :
            \E k \in 1..Len(servers) :
              /\ servers[k].id = server_registrations[i].id
              /\ servers[k].canonicalId = server_registrations[i].canonicalId
              /\ IF NoRemoteUrl(server_registrations[i])
                 THEN servers[k].proxyUrl = None /\ servers[k].isLocal
                 ELSE /\ servers[k].proxyUrl
                           = <<"/", "mcp", "/", "proxy", "/", server_registrations[i].id>>
                      /\ ~servers[k].isLocal

\* GET /mcp/servers has listed an Approved server without url or endpoint as
\* local, with no proxyUrl.
C19_Witness ==
  /\ Answered("mcp_servers")
  /\ \E k \in 1..Len(response.body.servers) :
       response.body.servers[k].isLocal /\ response.body.servers[k].proxyUrl = None

\* --------------------------------------------------------------------- C20
\* C20: the rows of an audit query are audit events that have the event type
\* and the server id asked for, newest first, and no more than the limit
\* asked for, which is 100 when none is given; a query with a limit above
\* 1000 returns no rows.
C20_AuditQueryFilteredOrderedCapped ==
  /\ QueryLimit(None) = 100
  /\ Answered("audit_events") =>
       LET q == response.request.arg
       IN IF response.body.code # 200 THEN "rows" \notin DOMAIN response.body
          ELSE LET rows == response.body.rows
               IN /\ QueryLimit(q.limit) <= 1000
                  /\ Len(rows) <= QueryLimit(q.limit)
                  /\ \A k \in 1..Len(rows) :
                       /\ rows[k] \in Range(audit_events)
                       /\ q.event_type # None => rows[k].eventType = q.event_type[1]
                       /\ q.server_id # None => rows[k].serverId = q.server_id[1]
                  /\ \A k, m \in 1..Len(rows) :
                       k < m => rows[k].createdAt > rows[m].createdAt

\* A query with limit 1 and a filter has returned the newest of two or more
\* events that pass the filter.
C20_Witness ==
  /\ Answered("audit_events")
  /\ response.body.code = 200
  /\ response.request.arg.limit = <<1>>
  /\ response.request.arg.server_id # None
  /\ Len(response.body.rows) = 1
  /\ Cardinality({i \in 1..Len(audit_events) :
                    audit_events[i].serverId = response.request.arg.server_id[1]}) >= 2


\* --------------------------------------------------------------------- C21
\* Sequence old is the beginning of sequence new: every row of old is in new
\* at its place, unmodified.
IsPrefix(old, new) ==
  /\ Len(old) <= Len(new)
  /\ SubSeq(new, 1, Len(old)) = old

\* C21: history is append-only.  In every step, every scan result, approval
\* and audit event that exists stays at its place unmodified, so the three
\* tables only grow, and every registration that exists still exists.
C21_HistoryAppendOnly ==
  [][/\ IsPrefix(scan_results, scan_results')
     /\ IsPrefix(approvals, approvals')
     /\ IsPrefix(audit_events, audit_events')
     /\ Len(server_registrations) <= Len(server_registrations')
     /\ \A i \in 1..Len(server_registrations) :
          server_registrations'[i].id = server_registrations[i].id]_vars

\* A server with two scan results: the second upload kept the first one.
C21_Witness ==
  \E i, j \in 1..Len(scan_results) :
    i < j /\ scan_results[i].serverId = scan_results[j].serverId

\* --------------------------------------------------------------------- C22
\* The rows of table that the request made at time now wrote.
WrittenBy(table, now) ==
  {i \in 1..Len(table) : table[i].createdAt = now}

\* C22: a successful uploadScan on a registered server appends exactly one
\* scan result for that server, sets the registration's status to the
\* evaluator's result and its updatedAt to the time of the upload, and emits
\* exactly one ScanUploaded audit event whose risk score, tool count and status
\* are the riskScore, toolsFound and status of the reply.
C22_UploadWritesOnceAndReportsIt ==
  [][\A h \in Handlers :
       /\ Steps(h, "up_insert", "up_update")
            => /\ Len(scan_results') = Len(scan_results) + 1
               /\ IsPrefix(scan_results, scan_results')
               /\ scan_results'[Len(scan_results')].serverId = local[h].server_id
       /\ Steps(h, "up_update", "up_audit")
            => LET r == RowOf(local[h].server_id)'
               IN /\ r.status = PolicyStatus(local[h].risk_score,
                                             POLICY_AUTO_APPROVE_BELOW,
                                             POLICY_MAX_RISK_SCORE)
                  /\ r.updatedAt = local[h].now
       /\ (Steps(h, "up_audit", "idle") /\ response'.body.code = 200)
            => LET body == response'.body
                   now == response'.request.now
                   scans == WrittenBy(scan_results', now)
                   events == WrittenBy(audit_events', now)
               IN /\ Cardinality(scans) = 1
                  /\ \A i \in scans : /\ scan_results'[i].serverId = body.serverId
                                      /\ scan_results'[i].riskScore = body.riskScore
                                      /\ Len(scan_results'[i].discoveredTools)
                                           = body.toolsFound
                  /\ Cardinality(events) = 1
                  /\ Len(audit_events') = Len(audit_events) + 1
                  /\ \A i \in events :
                       /\ audit_events'[i].eventType = "ScanUploaded"
                       /\ audit_events'[i].serverId = body.serverId
                       /\ audit_events'[i].details.riskScore = body.riskScore
                       /\ audit_events'[i].details.toolCount = body.toolsFound
                       /\ audit_events'[i].details.newStatus = body.status
                  /\ body.status = PolicyStatus(body.riskScore,
                                                POLICY_AUTO_APPROVE_BELOW,
                                                POLICY_MAX_RISK_SCORE)]_vars

\* An upload that found three tools on two backends has been answered.
C22_Witness ==
  /\ Answered("upload_scan")
  /\ response.body.code = 200
  /\ response.body.toolsFound = 3
  /\ \E i \in 1..Len(audit_events) :
       /\ audit_events[i].eventType = "ScanUploaded"
       /\ audit_events[i].createdAt = response.request.now

\* --------------------------------------------------------------------- C23
\* The number of tools over all backends of a payload.
RECURSIVE ClaimedToolCount(_)
ClaimedToolCount(servers) ==
  IF servers = <<>> THEN 0
  ELSE Len(Head(servers)) + ClaimedToolCount(Tail(servers))

\* The step answers an upload, in its first statement or after its last.
UploadAnswers(h) ==
  /\ pc[h] \in {"idle", "up_audit"}
  /\ pc'[h] = "idle"
  /\ response' # response
  /\ response'.request.op = "upload_scan"

\* C23: tool extraction from a scan payload that is a JSON object never fails.
\* The tools are the backends' tool lists one after the other, toolsFound is
\* their total, and an upload to a registered server is answered 200 whatever
\* its risk_score, issues, servers and tools fields hold, a missing or
\* malformed field counting as empty or as score 0.
C23_ExtractionNeverFails ==
  [][\A h \in Handlers :
       /\ Steps(h, "idle", "up_insert")
            => LET servers == local'[h].req[1].servers
               IN /\ Len(local'[h].tools) = ClaimedToolCount(servers)
                  /\ \A i \in 1..Len(servers) : \A j \in 1..Len(servers[i]) :
                       \E k \in 1..Len(local'[h].tools) :
                         local'[h].tools[k] = ToolName(servers[i][j])
       /\ ( /\ UploadAnswers(h)
            /\ response'.request.arg.scanOutput = "object"
            /\ IndexOfId(response'.request.arg.server_id) # 0 )
            => /\ response'.body.code = 200
               /\ pc[h] = "up_audit"
                    => response'.body.toolsFound
                         = ClaimedToolCount(local[h].req[1].servers)]_vars

\* --------------------------------------------------------------------- C24
\* C24: the headers the proxy forwards are exactly the inbound headers
\* without Host and Content-Length, whatever the case of their names.  Every
\* other inbound header line is forwarded with its value, and every header
\* forwarded is an inbound one with its value.
C24_ForwardsAllButHostAndLength ==
  \A e \in backendLog :
    LET dropped(k) == Lower(k) \in {"host", "content-length"}
    IN /\ \A i \in 1..Len(e.inbound) :
            ~dropped(e.inbound[i].name)
              => /\ e.inbound[i].name \in DOMAIN e.headers
                 /\ e.headers[e.inbound[i].name] = e.inbound[i].value
       /\ \A k \in DOMAIN e.headers :
            /\ ~dropped(k)
            /\ \E i \in 1..Len(e.inbound) :
                 e.inbound[i].name = k /\ e.inbound[i].value = e.headers[k]

\* --------------------------------------------------------------------- C25
\* Handler h takes a step of a checkPolicy call.
GateStep(h) == pc[h] = "idle" /\ Answers("check_policy")

\* Handler h takes a step of a proxy call: the lookup, or the request to the
\* backend.
ProxyStep(h) ==
  \/ pc[h] = "idle" /\ Answers("proxy")
  \/ Steps(h, "idle", "px_forward")
  \/ pc[h] = "px_forward" /\ pc'[h] # "px_forward"

\* C25: the policy gate and the proxy only read the store.  Every step of a
\* checkPolicy call or a proxy call, whatever the call's outcome, leaves the
\* registrations (status and updatedAt included), the scan results, the
\* approvals and the audit trail as they were, and a proxy call that has
\* ended has kept nothing.
C25_GateAndProxyReadOnly ==
  [][\A h \in Handlers :
       /\ (GateStep(h) \/ ProxyStep(h))
            => /\ server_registrations' = server_registrations
               /\ scan_results' = scan_results
               /\ approvals' = approvals
               /\ audit_events' = audit_events
               /\ statusWrites' = statusWrites
       /\ (ProxyStep(h) /\ pc'[h] = "idle")
            => /\ local'[h] = NoLocal
               /\ stream'[h] = NoStream]_vars

\* The gate has blocked a registered server, with the registry holding its
\* registration and audit event.
C25_Witness ==
  /\ Answered("check_policy")
  /\ ~response.body.allowed
  /\ response.body.status \in Statuses
  /\ audit_events # <<>>

\* --------------------------------------------------------------------- C26
\* The audit events of the operations that set the status of server id after
\* its registration, by their place in the trail.
StatusChangesIn(events, id) ==
  {i \in 1..Len(events) :
     /\ events[i].serverId = id
     /\ events[i].eventType # "ServerRegistered"}

StatusChanges(id) == StatusChangesIn(audit_events, id)

\* The most recent successful status-changing operation on server id was
\* approve, or an uploadScan with a risk score of at most autoApproveBelow.
LastChangeApproves(id) ==
  /\ StatusChanges(id) # {}
  /\ LET e == audit_events[CHOOSE i \in StatusChanges(id) :
                             \A j \in StatusChanges(id) : j <= i]
     IN \/ e.eventType = "ServerApproved"
        \/ /\ e.eventType = "ScanUploaded"
           /\ e.details.riskScore <= POLICY_AUTO_APPROVE_BELOW

C27_UploadOverridesAnyStatus ==
  [][\A h \in Handlers :
       Steps(h, "up_update", "up_audit")
         => LET id == local[h].server_id
                score == local[h].risk_score
                old == RowOf(id).status
                new == RowOf(id)'.status
            IN /\ old \in Statuses
               /\ new = IF score <= POLICY_AUTO_APPROVE_BELOW THEN "Approved"
                        ELSE IF score <= POLICY_MAX_RISK_SCORE THEN "ScannedPass"
                        ELSE "ScannedFail"
               /\ (old \in {"Denied", "Suspended"} /\ score <= POLICY_AUTO_APPROVE_BELOW)
                    => /\ new = "Approved"
                       /\ approvals' = approvals
               /\ (old = "Approved" /\ score > POLICY_MAX_RISK_SCORE)
                    => new = "ScannedFail"]_vars

\* A server an administrator denied is Approved, by an upload made after the
\* denial and with no approve action ever taken.
C27_Witness ==
  /\ \A h \in Handlers : pc[h] = "idle"
  /\ \E i \in 1..Len(server_registrations) :
       LET id == server_registrations[i].id
       IN /\ server_registrations[i].status = "Approved"
          /\ \E a \in 1..Len(approvals) :
               approvals[a].serverId = id /\ approvals[a].action = "deny"
          /\ \A a \in 1..Len(approvals) : approvals[a].action # "approve"
          /\ audit_events[Len(audit_events)].eventType = "ScanUploaded"
          /\ audit_events[Len(audit_events)].serverId = id
          /\ audit_events[Len(audit_events) - 1].eventType = "ServerDenyd"

\* --------------------------------------------------------------------- C28
\* The status an audit event announces for its server.
Announced(e) ==
  CASE e.eventType = "ServerRegistered" -> "PendingScan"
    [] e.eventType = "ScanUploaded" -> e.details.newStatus
    [] e.eventType = "ServerApproved" -> "Approved"
    [] e.eventType = "ServerDenyd" -> "Denied"
    [] e.eventType = "ServerSuspendd" -> "Suspended"

\* The audit event written last for server id in the trail events.
LastEventOf(events, id) ==
  LET of == {i \in 1..Len(events) : events[i].serverId = id}
  IN events[CHOOSE i \in of : \A j \in of : j <= i]

\* C28: when concurrent uploadScan and approve/deny/suspend calls on a server
\* have all completed, the server's stored status is the one its most recently
\* written audit event announces; and the previousStatus an administrative
\* action records is the status the server has immediately before the
\* action's status write.
C28_StatusMatchesLastAuditEvent ==
  [][/\ (\A h \in Handlers : pc'[h] = "idle")
          => \A i \in 1..Len(server_registrations') :
               server_registrations'[i].status
                 = Announced(LastEventOf(audit_events', server_registrations'[i].id))
     /\ \A h \in Handlers :
          Steps(h, "adm_update", "adm_approval")
            => AdminAuditEvent(local[h]).details.previousStatus
                 = RowOf(local[h].server_id).status]_vars

\* --------------------------------------------------------------------- C29
\* Handler h takes a step of an uploadScan or of an approve, deny or suspend
\* call.
WriteCallStep(h) ==
  \/ /\ pc[h] \in {"up_insert", "up_update", "up_audit",
                   "adm_update", "adm_approval", "adm_audit"}
     /\ pc'[h] # pc[h]
  \/ /\ pc[h] = "idle"
     /\ \/ pc'[h] \in {"up_insert", "adm_update"}
        \/ /\ nreq' = nreq + 1
           /\ response'.request.op \in {"upload_scan"} \cup AdminActions

\* C29: uploadScan and approve/deny/suspend change only the status and
\* updatedAt of the registration they name.  In each of their steps that
\* registration keeps its id, canonicalId, name, ownerTeam, sourceType,
\* declaredTools, mcpConfig and createdAt, every other registration is left as
\* it is, and none is added or removed.
C29_WritesTouchStatusOfNamedRowOnly ==
  [][\A h \in Handlers :
       WriteCallStep(h)
         => /\ Len(server_registrations') = Len(server_registrations)
            /\ \A i \in 1..Len(server_registrations) :
                 LET old == server_registrations[i]
                     new == server_registrations'[i]
                 IN IF old.id = local[h].server_id
                    THEN new = [old EXCEPT !.status = new.status,
                                           !.updatedAt = new.updatedAt]
                    ELSE new = old]_vars

\* Of two registrations one has had its status set by a call and the other is
\* as its registration left it.
C29_Witness ==
  /\ \A h \in Handlers : pc[h] = "idle"
  /\ \E i, j \in 1..Len(server_registrations) :
       /\ server_registrations[i].status \notin {"PendingScan"}
       /\ server_registrations[i].updatedAt > server_registrations[i].createdAt
       /\ server_registrations[j].status = "PendingScan"
       /\ server_registrations[j].updatedAt = server_registrations[j].createdAt
====
